---- MODULE Spec2Model ----
(***************************************************************************)
(* A model of kudu/tablet/rowset_metadata.cc: RowSetMetadata (the          *)
(* descriptor of one rowset: column blocks, redo/undo delta chains,        *)
(* bloom/ad-hoc index blocks, durable watermark, schema) and               *)
(* RowSetMetadataUpdate (the builder of an update for CommitUpdate).       *)
(*                                                                         *)
(* Spec      one caller thread; every action is one whole handler.         *)
(* ConcSpec  several caller threads; a handler is split at the points      *)
(*           where other threads can observe or interfere (lock            *)
(*           acquisition, each field access, lock release).                *)
(***************************************************************************)
EXTENDS Integers, Sequences, FiniteSets, TLC

VARIABLES
  initted_,                   \* bool initted_
  id_,                        \* int64_t id_
  schema_,                    \* Schema schema_
  column_blocks_,             \* std::vector<BlockId> column_blocks_
  redo_delta_blocks_,         \* std::vector<BlockId> redo_delta_blocks_
  undo_delta_blocks_,         \* std::vector<BlockId> undo_delta_blocks_
  last_durable_redo_dms_id_,  \* int64_t last_durable_redo_dms_id_
  bloom_block_,               \* BlockId bloom_block_
  adhoc_index_block_,         \* BlockId adhoc_index_block_
  deltas_lock_,               \* LockType deltas_lock_: 0 = free, else the holder
  aborted,                    \* a CHECK failed: the process has terminated
  call,                       \* Spec: the last handler run, its arguments and result
  pre,                        \* Spec: the descriptor as it was when that handler began
  hist,                       \* how the descriptor was made; were its column blocks set
  pc,                         \* ConcSpec: where each thread is in its handler
  frame,                      \* ConcSpec: each thread's arguments and locals
  seen                        \* ConcSpec: per serializing thread, the descriptor states
                              \*   that existed between whole operations since it began

mdvars == <<initted_, id_, schema_, column_blocks_, redo_delta_blocks_,
            undo_delta_blocks_, last_durable_redo_dms_id_, bloom_block_,
            adhoc_index_block_>>
seqvars == <<call, pre>>
concvars == <<pc, frame, seen, deltas_lock_>>
vars == <<mdvars, aborted, hist, seqvars, concvars>>

(***************************************************************************)
(* Bounds of the model.                                                    *)
(***************************************************************************)
MaxChain == 3         \* longest redo chain
MaxUndo == 2          \* longest undo chain

\* The block identifiers, watermarks and threads of the callers.
BlockIds == {1, 2}
DmsIds == {0, 1}
\* The block appended to the undo chain by the one caller of Spec (a loaded
\* descriptor's undo chain begins with the other block).
UndoBlockIds == {1}
Threads == {1, 2, 3}

(***************************************************************************)
(* Sequences.                                                              *)
(***************************************************************************)
Range(s) == {s[i] : i \in 1..Len(s)}

SeqsUpTo(S, lo, hi) == UNION {[1..n -> S] : n \in lo..hi}

IsPrefix(s, t) == Len(s) <= Len(t) /\ SubSeq(t, 1, Len(s)) = s

(***************************************************************************)
(* BlockId: an opaque comparable handle; the default-constructed one is    *)
(* null.  BlockIdPB is its persisted form.                                 *)
(***************************************************************************)
NullBlockId == 0

IsNull(b) == b = NullBlockId

FromPB(block_pb) == block_pb.id

CopyToPB(b) == [id |-> b]

(***************************************************************************)
(* Schema: columns, their ids, and the number of leading key columns.      *)
(* ColumnSchemaPB carries the column definition plus id and is_key, which  *)
(* ColumnSchemaToPB leaves unset and ColumnSchemaFromPB ignores.           *)
(***************************************************************************)
NoSchema == [cols |-> <<>>, col_ids |-> <<>>, num_key_columns |-> 0]

num_columns(schema) == Len(schema.cols)

ColumnSchemaToPB(col) == [name |-> col.name, type |-> col.type]

ColumnSchemaFromPB(col_pb) == [name |-> col_pb.name, type |-> col_pb.type]

Injective(s) == \A i, j \in 1..Len(s) : s[i] = s[j] => i = j

\* Schema::Reset(cols, ids, key_columns): the schema, or an error.
SchemaReset(cols, ids, key_columns) ==
  IF key_columns > Len(cols) \/ Len(ids) # Len(cols)
     \/ ~Injective([i \in 1..Len(cols) |-> cols[i].name]) \/ ~Injective(ids)
  THEN [ok |-> FALSE, schema |-> NoSchema]
  ELSE [ok |-> TRUE,
        schema |-> [cols |-> cols, col_ids |-> ids, num_key_columns |-> key_columns]]

(***************************************************************************)
(* The descriptor as one record, for the handlers written as functions.    *)
(***************************************************************************)
kNoDurableMemStore == -1

Md == [initted |-> initted_, id |-> id_, schema |-> schema_,
       column_blocks |-> column_blocks_,
       redo_delta_blocks |-> redo_delta_blocks_,
       undo_delta_blocks |-> undo_delta_blocks_,
       last_durable_redo_dms_id |-> last_durable_redo_dms_id_,
       bloom_block |-> bloom_block_,
       adhoc_index_block |-> adhoc_index_block_]

SetMd(md) ==
  /\ initted_' = md.initted
  /\ id_' = md.id
  /\ schema_' = md.schema
  /\ column_blocks_' = md.column_blocks
  /\ redo_delta_blocks_' = md.redo_delta_blocks
  /\ undo_delta_blocks_' = md.undo_delta_blocks
  /\ last_durable_redo_dms_id_' = md.last_durable_redo_dms_id
  /\ bloom_block_' = md.bloom_block
  /\ adhoc_index_block_' = md.adhoc_index_block

\* RowSetMetadata(tablet_metadata): not yet initialized.
NewUninitialized ==
  [initted |-> FALSE, id |-> -1, schema |-> NoSchema, column_blocks |-> <<>>,
   redo_delta_blocks |-> <<>>, undo_delta_blocks |-> <<>>,
   last_durable_redo_dms_id |-> kNoDurableMemStore,
   bloom_block |-> NullBlockId, adhoc_index_block |-> NullBlockId]

\* RowSetMetadata(tablet_metadata, id, schema): initialized, no blocks yet.
NewInitialized(id, schema) ==
  [NewUninitialized EXCEPT !.initted = TRUE, !.id = id, !.schema = schema]

(***************************************************************************)
(* InitFromPB, on the descriptor md.  The status is "OK", the error of     *)
(* Schema::Reset, or "FATAL" when CHECK(!initted_) fails.                  *)
(***************************************************************************)
\* The statements of InitFromPB after its CHECK.
InitFromPBBody(md, pb) ==
    LET n == Len(pb.columns)
        blocks == [i \in 1..n |-> FromPB(pb.columns[i].block)]
        cols == [i \in 1..n |-> ColumnSchemaFromPB(pb.columns[i].schema)]
        cols_ids == [i \in 1..n |-> pb.columns[i].schema.id]
        key_columns == Cardinality({i \in 1..n : pb.columns[i].schema.is_key})
        reset == SchemaReset(cols, cols_ids, key_columns)
        m1 == [md EXCEPT
                 !.id = pb.id,
                 !.bloom_block = IF pb.has_bloom_block
                                 THEN FromPB(pb.bloom_block) ELSE @,
                 !.adhoc_index_block = IF pb.has_adhoc_index_block
                                       THEN FromPB(pb.adhoc_index_block) ELSE @,
                 !.column_blocks = @ \o blocks]
    IN IF ~reset.ok THEN [status |-> "InvalidArgument", md |-> m1]
       ELSE [status |-> "OK",
             md |-> [m1 EXCEPT
                       !.schema = reset.schema,
                       !.redo_delta_blocks =
                          @ \o [i \in 1..Len(pb.redo_deltas) |->
                                  FromPB(pb.redo_deltas[i].block)],
                       !.last_durable_redo_dms_id = pb.last_durable_dms_id,
                       !.undo_delta_blocks =
                          @ \o [i \in 1..Len(pb.undo_deltas) |->
                                  FromPB(pb.undo_deltas[i].block)],
                       !.initted = TRUE]]

\* InitFromPB without CHECK(!initted_).
InitFromPBUnchecked(md, pb) == InitFromPBBody(md, pb)

InitFromPB(md, pb) ==
  IF md.initted THEN [status |-> "FATAL", md |-> md] ELSE InitFromPBBody(md, pb)

(***************************************************************************)
(* ToProtobuf, in its three parts: the id and the column files (read       *)
(* without the lock), the delta files (read under deltas_lock_), the       *)
(* bloom and ad-hoc index blocks.                                          *)
(***************************************************************************)
\* ColumnDataPB with the key test off by one.
ColumnDataPBKeyOffByOne(block_id, schema, idx) ==
  [block |-> CopyToPB(block_id),
   schema |-> [name |-> ColumnSchemaToPB(schema.cols[idx + 1]).name,
               type |-> ColumnSchemaToPB(schema.cols[idx + 1]).type,
               id |-> schema.col_ids[idx + 1],
               is_key |-> idx <= schema.num_key_columns]]

ColumnDataPB(block_id, schema, idx) ==
  [block |-> CopyToPB(block_id),
   schema |-> [name |-> ColumnSchemaToPB(schema.cols[idx + 1]).name,
               type |-> ColumnSchemaToPB(schema.cols[idx + 1]).type,
               id |-> schema.col_ids[idx + 1],
               is_key |-> idx < schema.num_key_columns]]

DeltaDataPB(block_id) == [block |-> CopyToPB(block_id)]

WriteColumnFiles(column_blocks, schema) ==
  [i \in 1..Len(column_blocks) |-> ColumnDataPB(column_blocks[i], schema, i - 1)]

WriteDeltaFiles(blocks) == [i \in 1..Len(blocks) |-> DeltaDataPB(blocks[i])]

ToProtobuf(md) ==
  [id |-> md.id,
   columns |-> WriteColumnFiles(md.column_blocks, md.schema),
   last_durable_dms_id |-> md.last_durable_redo_dms_id,
   redo_deltas |-> WriteDeltaFiles(md.redo_delta_blocks),
   undo_deltas |-> WriteDeltaFiles(md.undo_delta_blocks),
   has_bloom_block |-> ~IsNull(md.bloom_block),
   bloom_block |-> IF ~IsNull(md.bloom_block)
                   THEN CopyToPB(md.bloom_block) ELSE CopyToPB(NullBlockId),
   has_adhoc_index_block |-> ~IsNull(md.adhoc_index_block),
   adhoc_index_block |-> IF ~IsNull(md.adhoc_index_block)
                         THEN CopyToPB(md.adhoc_index_block)
                         ELSE CopyToPB(NullBlockId)]

\* Load: InitFromPB on a new uninitialized descriptor.
Load(pb) == InitFromPB(NewUninitialized, pb)

(***************************************************************************)
(* std::vector and std::find.  An iterator is a position 1..Len+1, the     *)
(* last being end().  After erase(first, last) the position first still    *)
(* denotes the element that followed the erased range.                     *)
(***************************************************************************)
RECURSIVE FindFrom(_, _, _)
FindFrom(v, value, it) ==
  IF it > Len(v) THEN Len(v) + 1
  ELSE IF v[it] = value THEN it
  ELSE FindFrom(v, value, it + 1)

\* Find returning the last position holding value instead of the first.
FindLast(v, value) ==
  IF \E i \in 1..Len(v) : v[i] = value
  THEN CHOOSE i \in 1..Len(v) : v[i] = value /\ \A j \in (i + 1)..Len(v) : v[j] # value
  ELSE Len(v) + 1

Find(v, value) == FindFrom(v, value, 1)

VecErase(v, first, last) == SubSeq(v, 1, first - 1) \o SubSeq(v, last, Len(v))

\* VecInsert with the position ignored: the items go to the end.
VecInsertAtEnd(v, position, items) == v \o items

VecInsert(v, position, items) ==
  SubSeq(v, 1, position - 1) \o items \o SubSeq(v, position, Len(v))

(***************************************************************************)
(* CommitUpdate.                                                           *)
(***************************************************************************)
\* MatchRun with the comparison of blocks left out: only the end is checked.
RECURSIVE MatchRunLengthOnly(_, _, _, _)
MatchRunLengthOnly(chain, to_remove, k, end_it) ==
  IF k > Len(to_remove) THEN end_it
  ELSE IF end_it = Len(chain) + 1 THEN 0
  ELSE MatchRunLengthOnly(chain, to_remove, k + 1, end_it + 1)

\* MatchRun that compares only the first block of to_remove with the chain.
RECURSIVE MatchRunFirstOnly(_, _, _, _)
MatchRunFirstOnly(chain, to_remove, k, end_it) ==
  IF k > Len(to_remove) THEN end_it
  ELSE IF end_it = Len(chain) + 1 \/ (k = 1 /\ chain[end_it] # to_remove[k]) THEN 0
  ELSE MatchRunFirstOnly(chain, to_remove, k + 1, end_it + 1)

\* The loop over rep.to_remove from its k-th block, end_it being the
\* position compared next: end_it past the run, or 0 for the early return.
RECURSIVE MatchRun(_, _, _, _)
MatchRun(chain, to_remove, k, end_it) ==
  IF k > Len(to_remove) THEN end_it
  ELSE IF end_it = Len(chain) + 1 \/ chain[end_it] # to_remove[k] THEN 0
  ELSE MatchRun(chain, to_remove, k + 1, end_it + 1)

\* One iteration of the loop over update.replace_redo_blocks_.
ReplaceDeltaBlocks(chain, rep) ==
  IF rep.to_remove = <<>> THEN [status |-> "FATAL", chain |-> chain]
  ELSE
    LET start_it == Find(chain, rep.to_remove[1])
        end_it == MatchRun(chain, rep.to_remove, 1, start_it)
    IN IF end_it = 0 THEN [status |-> "InvalidArgument", chain |-> chain]
       ELSE [status |-> "OK",
             chain |-> VecInsert(VecErase(chain, start_it, end_it),
                                 start_it, rep.to_add)]

\* ReplaceLoop that undoes the entries already applied when one fails.
RECURSIVE ReplaceLoopRollback(_, _, _)
ReplaceLoopRollback(chain, reps, i) ==
  IF i > Len(reps) THEN [status |-> "OK", chain |-> chain]
  ELSE LET r == ReplaceDeltaBlocks(chain, reps[i])
       IN IF r.status # "OK" THEN r
          ELSE LET rest == ReplaceLoopRollback(r.chain, reps, i + 1)
               IN IF rest.status # "OK" THEN [rest EXCEPT !.chain = chain] ELSE rest

\* ReplaceLoop taking the entries in reverse order.
RECURSIVE ReplaceLoopReversed(_, _, _)
ReplaceLoopReversed(chain, reps, i) ==
  IF i > Len(reps) THEN [status |-> "OK", chain |-> chain]
  ELSE LET r == ReplaceDeltaBlocks(chain, reps[Len(reps) - i + 1])
       IN IF r.status # "OK" THEN r ELSE ReplaceLoopReversed(r.chain, reps, i + 1)

\* The loop over update.replace_redo_blocks_ from its i-th entry.
RECURSIVE ReplaceLoop(_, _, _)
ReplaceLoop(chain, reps, i) ==
  IF i > Len(reps) THEN [status |-> "OK", chain |-> chain]
  ELSE LET r == ReplaceDeltaBlocks(chain, reps[i])
       IN IF r.status # "OK" THEN r ELSE ReplaceLoop(r.chain, reps, i + 1)

\* AddNewRedoBlocks putting the new blocks in front.
AddNewRedoBlocksAtFront(chain, new_redo_blocks) == new_redo_blocks \o chain

\* The loop appending update.new_redo_blocks_.
AddNewRedoBlocks(chain, new_redo_blocks) == chain \o new_redo_blocks

\* ReplaceColumns overwriting the slot named and every slot after it.
ReplaceColumnsFromIndex(column_blocks, cols_to_replace) ==
  IF \E idx \in DOMAIN cols_to_replace : ~(idx < Len(column_blocks))
  THEN [status |-> "FATAL", column_blocks |-> column_blocks]
  ELSE [status |-> "OK",
        column_blocks |->
          [i \in 1..Len(column_blocks) |->
             IF \E idx \in DOMAIN cols_to_replace : idx <= i - 1
             THEN cols_to_replace[CHOOSE idx \in DOMAIN cols_to_replace :
                                    /\ idx <= i - 1
                                    /\ \A j \in DOMAIN cols_to_replace :
                                         j <= i - 1 => j <= idx]
             ELSE column_blocks[i]]]

\* The loop over update.cols_to_replace_, a map from column index to block.
ReplaceColumns(column_blocks, cols_to_replace) ==
  IF \E idx \in DOMAIN cols_to_replace : ~(idx < Len(column_blocks))
  THEN [status |-> "FATAL", column_blocks |-> column_blocks]
  ELSE [status |-> "OK",
        column_blocks |->
          [i \in 1..Len(column_blocks) |->
             IF (i - 1) \in DOMAIN cols_to_replace
             THEN cols_to_replace[i - 1] ELSE column_blocks[i]]]

\* CommitUpdate with the column blocks replaced before the redo chain is
\* matched.
CommitUpdateColumnsFirst(md, update) ==
  LET c == ReplaceColumns(md.column_blocks, update.cols_to_replace_)
      m0 == [md EXCEPT !.column_blocks = c.column_blocks]
      r == ReplaceLoop(md.redo_delta_blocks, update.replace_redo_blocks_, 1)
      m1 == [m0 EXCEPT !.redo_delta_blocks = r.chain]
  IN IF c.status # "OK" THEN [status |-> c.status, md |-> md]
     ELSE IF r.status # "OK" THEN [status |-> r.status, md |-> m1]
     ELSE [status |-> "OK",
           md |-> [m1 EXCEPT !.redo_delta_blocks =
                               AddNewRedoBlocks(@, update.new_redo_blocks_)]]

CommitUpdate(md, update) ==
  LET r == ReplaceLoop(md.redo_delta_blocks, update.replace_redo_blocks_, 1)
      m1 == [md EXCEPT !.redo_delta_blocks = r.chain]
      m2 == [m1 EXCEPT
               !.redo_delta_blocks = AddNewRedoBlocks(@, update.new_redo_blocks_)]
      c == ReplaceColumns(m2.column_blocks, update.cols_to_replace_)
  IN IF r.status # "OK" THEN [status |-> r.status, md |-> m1]
     ELSE IF c.status # "OK" THEN [status |-> c.status, md |-> m2]
     ELSE [status |-> "OK", md |-> [m2 EXCEPT !.column_blocks = c.column_blocks]]

(***************************************************************************)
(* The other mutators.                                                     *)
(***************************************************************************)
\* SetColumnDataBlocks without its CHECK_EQ.
SetColumnDataBlocksUnchecked(md, blocks) ==
  [status |-> "OK", md |-> [md EXCEPT !.column_blocks = blocks]]

\* SetColumnDataBlocks with the CHECK_EQ after the assignment.
SetColumnDataBlocksChecksLate(md, blocks) ==
  [status |-> IF Len(blocks) # num_columns(md.schema) THEN "FATAL" ELSE "OK",
   md |-> [md EXCEPT !.column_blocks = blocks]]

SetColumnDataBlocks(md, blocks) ==
  IF Len(blocks) # num_columns(md.schema) THEN [status |-> "FATAL", md |-> md]
  ELSE [status |-> "OK", md |-> [md EXCEPT !.column_blocks = blocks]]

\* CommitRedoDeltaDataBlock without the assignment of the watermark.
CommitRedoDeltaDataBlockKeepsWatermark(md, dms_id, block_id) ==
  [status |-> "OK", md |-> [md EXCEPT !.redo_delta_blocks = Append(@, block_id)]]

CommitRedoDeltaDataBlock(md, dms_id, block_id) ==
  [status |-> "OK",
   md |-> [md EXCEPT !.last_durable_redo_dms_id = dms_id,
                     !.redo_delta_blocks = Append(@, block_id)]]

\* CommitUndoDeltaDataBlock putting the block in front.
CommitUndoDeltaDataBlockAtFront(md, block_id) ==
  [status |-> "OK", md |-> [md EXCEPT !.undo_delta_blocks = <<block_id>> \o @]]

CommitUndoDeltaDataBlock(md, block_id) ==
  [status |-> "OK", md |-> [md EXCEPT !.undo_delta_blocks = Append(@, block_id)]]

(***************************************************************************)
(* RowSetMetadataUpdate, the builder.                                      *)
(***************************************************************************)
EmptyUpdate ==
  [replace_redo_blocks_ |-> <<>>, new_redo_blocks_ |-> <<>>, cols_to_replace_ |-> <<>>]

\* ReplaceRedoDeltaBlocks that silently ignores a request with nothing to
\* remove.
ReplaceRedoDeltaBlocksSkipsEmpty(update, to_remove, to_add) ==
  IF to_remove = <<>> THEN update
  ELSE [update EXCEPT !.replace_redo_blocks_ =
                         Append(@, [to_remove |-> to_remove, to_add |-> to_add])]

ReplaceRedoDeltaBlocks(update, to_remove, to_add) ==
  [update EXCEPT !.replace_redo_blocks_ =
                    Append(@, [to_remove |-> to_remove, to_add |-> to_add])]

\* InsertOrDie: FATAL when col_idx is already a key.
ReplaceColumnBlock(update, col_idx, block_id) ==
  IF col_idx \in DOMAIN update.cols_to_replace_
  THEN [status |-> "FATAL", update |-> update]
  ELSE [status |-> "OK",
        update |-> [update EXCEPT !.cols_to_replace_ =
                      [i \in (DOMAIN @) \cup {col_idx} |->
                         IF i = col_idx THEN block_id ELSE @[i]]]]

(***************************************************************************)
(* The callers' inputs.                                                    *)
(***************************************************************************)
ColK == [name |-> "k", type |-> "INT32"]
ColV == [name |-> "v", type |-> "STRING"]
Schema1 == [cols |-> <<ColK>>, col_ids |-> <<10>>, num_key_columns |-> 1]
Schema2 == [cols |-> <<ColK, ColV>>, col_ids |-> <<10, 11>>, num_key_columns |-> 1]

CreateNewArgs == {[id |-> 1, schema |-> Schema2]}

ColumnPB(b, col, id, is_key) ==
  [block |-> CopyToPB(b),
   schema |-> [name |-> col.name, type |-> col.type, id |-> id, is_key |-> is_key]]

\* Two columns, a bloom block, both chains non-empty.
PB1 ==
  [id |-> 2,
   has_bloom_block |-> TRUE, bloom_block |-> CopyToPB(1),
   has_adhoc_index_block |-> FALSE, adhoc_index_block |-> CopyToPB(NullBlockId),
   columns |-> <<ColumnPB(1, ColK, 10, TRUE), ColumnPB(2, ColV, 11, FALSE)>>,
   redo_deltas |-> <<DeltaDataPB(1), DeltaDataPB(2)>>,
   last_durable_dms_id |-> 0,
   undo_deltas |-> <<DeltaDataPB(2)>>]

\* One column, an ad-hoc index block, a bloom block that is present and null.
PB2 ==
  [id |-> 3,
   has_bloom_block |-> TRUE, bloom_block |-> CopyToPB(NullBlockId),
   has_adhoc_index_block |-> TRUE, adhoc_index_block |-> CopyToPB(2),
   columns |-> <<ColumnPB(2, ColK, 10, TRUE)>>,
   redo_deltas |-> <<>>,
   last_durable_dms_id |-> 1,
   undo_deltas |-> <<>>]

\* Two columns with the same column id: Schema::Reset fails.
PB3 == [PB1 EXCEPT !.columns =
          <<ColumnPB(1, ColK, 10, TRUE), ColumnPB(2, ColV, 10, FALSE)>>]

PBSamples == {PB1, PB2, PB3}

Runs(lo, hi) == SeqsUpTo(BlockIds, lo, hi)

\* SetColumnDataBlocks: every vector of 0..3 blocks.
ColumnVectors == Runs(0, 3)

\* One replacement entry, of runs of 0..2 blocks.
UpdatesOne ==
  {ReplaceRedoDeltaBlocks(EmptyUpdate, rm, add) : rm \in Runs(0, 2), add \in Runs(0, 2)}

\* Two replacement entries, of shorter runs.
UpdatesTwo ==
  {ReplaceRedoDeltaBlocks(u, rm, add) :
     u \in {ReplaceRedoDeltaBlocks(EmptyUpdate, rm1, add1) :
              rm1 \in Runs(1, 2), add1 \in Runs(0, 1)},
     rm \in Runs(1, 2), add \in Runs(0, 1)}

\* What an update carries besides its replacement entries: blocks to
\* append, and column blocks to replace (column 2 is out of range).
Extras ==
  {[new_redo_blocks_ |-> n, cols_to_replace_ |-> <<>>] : n \in {<<1>>, <<2, 1>>}} \cup
  {[new_redo_blocks_ |-> <<>>,
    cols_to_replace_ |-> ReplaceColumnBlock(EmptyUpdate, i, 2).update.cols_to_replace_] :
     i \in 0..2} \cup
  {[new_redo_blocks_ |-> <<1>>,
    cols_to_replace_ |-> ReplaceColumnBlock(EmptyUpdate, 0, 1).update.cols_to_replace_]}

WithExtras(u, e) ==
  [u EXCEPT !.new_redo_blocks_ = e.new_redo_blocks_,
            !.cols_to_replace_ = e.cols_to_replace_]

\* No entry or one entry of runs of 0..1 blocks, with extras.
UpdatesWithExtras ==
  {WithExtras(u, e) :
     u \in {EmptyUpdate} \cup
           {ReplaceRedoDeltaBlocks(EmptyUpdate, rm, add) :
              rm \in Runs(0, 1), add \in Runs(0, 1)},
     e \in Extras}

Updates == {EmptyUpdate} \cup UpdatesOne \cup UpdatesTwo \cup UpdatesWithExtras

(***************************************************************************)
(* Spec: one caller thread, one action per handler.                        *)
(***************************************************************************)
NoCall == [op |-> "none", status |-> "OK"]

Idle == [t \in Threads |-> "idle"]
NoFrames == [t \in Threads |-> <<>>]
NoneSeen == [t \in Threads |-> {}]

NotMade == [origin |-> "none", cols_set |-> FALSE]

InitMd(md) ==
  /\ initted_ = md.initted
  /\ id_ = md.id
  /\ schema_ = md.schema
  /\ column_blocks_ = md.column_blocks
  /\ redo_delta_blocks_ = md.redo_delta_blocks
  /\ undo_delta_blocks_ = md.undo_delta_blocks
  /\ last_durable_redo_dms_id_ = md.last_durable_redo_dms_id
  /\ bloom_block_ = md.bloom_block
  /\ adhoc_index_block_ = md.adhoc_index_block

\* No descriptor has been made yet.
Init ==
  /\ InitMd(NewUninitialized)
  /\ aborted = FALSE
  /\ hist = NotMade
  /\ call = NoCall
  /\ pre = NewUninitialized
  /\ pc = Idle
  /\ frame = NoFrames
  /\ seen = NoneSeen
  /\ deltas_lock_ = 0

\* The handler returned r (or died, on "FATAL") having been called as c.
Returns(c, r) ==
  \E res \in {r} :
    /\ SetMd(res.md)
    /\ aborted' = (res.status = "FATAL")
    /\ call' = [c EXCEPT !.status = res.status]
    /\ pre' = Md
    /\ UNCHANGED concvars

\* The caller has taken the result of its last call.
Returned == call.op = "none"

Made == ~aborted /\ Returned /\ hist.origin # "none"

\* The caller takes the result; the record of the call is dropped.
Return ==
  /\ ~Returned /\ ~aborted
  /\ call' = NoCall
  /\ pre' = NewUninitialized
  /\ UNCHANGED <<mdvars, aborted, hist, concvars>>

Call_CreateNew ==
  /\ ~aborted /\ Returned /\ hist.origin = "none"
  /\ \E a \in CreateNewArgs :
       Returns([op |-> "CreateNew", id |-> a.id, schema |-> a.schema, status |-> "OK"],
               [status |-> "OK", md |-> NewInitialized(a.id, a.schema)])
  /\ hist' = [origin |-> "CreateNew", cols_set |-> FALSE]

\* On an error the new descriptor is deleted and the caller has none.
Call_Load ==
  /\ ~aborted /\ Returned /\ hist.origin = "none"
  /\ \E pb \in PBSamples :
       \E r \in {Load(pb)} :
          /\ Returns([op |-> "Load", pb |-> pb, status |-> "OK"],
                     IF r.status = "OK" THEN r ELSE [r EXCEPT !.md = Md])
          /\ hist' = IF r.status = "OK"
                     THEN [origin |-> "Load", cols_set |-> TRUE] ELSE hist

\* InitFromPB once more, on the descriptor already made.
Call_InitFromPB ==
  /\ Made
  /\ \E pb \in PBSamples :
       Returns([op |-> "InitFromPB", pb |-> pb, status |-> "OK"], InitFromPB(Md, pb))
  /\ UNCHANGED hist

Call_ToProtobuf ==
  /\ Made
  /\ Returns([op |-> "ToProtobuf", pb |-> ToProtobuf(Md), status |-> "OK"],
             [status |-> "OK", md |-> Md])
  /\ UNCHANGED hist

Call_SetColumnDataBlocks ==
  /\ Made
  /\ \E blocks \in ColumnVectors :
       \E r \in {SetColumnDataBlocks(Md, blocks)} :
          /\ Returns([op |-> "SetColumnDataBlocks", blocks |-> blocks,
                      status |-> "OK"], r)
          /\ hist' = IF r.status = "OK" THEN [hist EXCEPT !.cols_set = TRUE] ELSE hist

Call_CommitRedoDeltaDataBlock ==
  /\ Made
  /\ Len(redo_delta_blocks_) < MaxChain
  /\ \E dms_id \in DmsIds, block_id \in BlockIds :
       Returns([op |-> "CommitRedoDeltaDataBlock", dms_id |-> dms_id,
                block_id |-> block_id, status |-> "OK"],
               CommitRedoDeltaDataBlock(Md, dms_id, block_id))
  /\ UNCHANGED hist

Call_CommitUndoDeltaDataBlock ==
  /\ Made
  /\ Len(undo_delta_blocks_) < MaxUndo
  /\ \E block_id \in UndoBlockIds :
       Returns([op |-> "CommitUndoDeltaDataBlock", block_id |-> block_id,
                status |-> "OK"],
               CommitUndoDeltaDataBlock(Md, block_id))
  /\ UNCHANGED hist

\* The update is one whose result keeps the redo chain within MaxChain.
Call_CommitUpdate ==
  /\ Made
  /\ \E update \in Updates :
       \E r \in {CommitUpdate(Md, update)} :
          /\ Len(r.md.redo_delta_blocks) <= MaxChain
          /\ Returns([op |-> "CommitUpdate", update |-> update, status |-> "OK"], r)
  /\ UNCHANGED hist

Next ==
  \/ Call_CreateNew
  \/ Call_Load
  \/ Call_InitFromPB
  \/ Call_ToProtobuf
  \/ Call_SetColumnDataBlocks
  \/ Call_CommitRedoDeltaDataBlock
  \/ Call_CommitUndoDeltaDataBlock
  \/ Call_CommitUpdate
  \/ Return

Spec == Init /\ [][Next]_vars

(***************************************************************************)
(* ConcSpec: the descriptor loaded from PB1 is shared by the threads, and  *)
(* each thread makes one call.  A handler is one action per lock           *)
(* operation and per access to a field another thread may touch.           *)
(***************************************************************************)
\* SetColumnDataBlocks: a new vector, and one of the wrong length.
ConcColumnVectors == {<<2, 1>>, <<1>>}

\* CommitUpdate: a compaction of [1,2] into [2] that also replaces column
\* 0; two entries of which the second is not found; an entry and an append.
ConcUpdates ==
  {WithExtras(ReplaceRedoDeltaBlocks(EmptyUpdate, <<1, 2>>, <<2>>),
              [new_redo_blocks_ |-> <<>>,
               cols_to_replace_ |->
                 ReplaceColumnBlock(EmptyUpdate, 0, 2).update.cols_to_replace_]),
   ReplaceRedoDeltaBlocks(ReplaceRedoDeltaBlocks(EmptyUpdate, <<2>>, <<1>>),
                          <<2>>, <<>>),
   WithExtras(ReplaceRedoDeltaBlocks(EmptyUpdate, <<1>>, <<>>),
              [new_redo_blocks_ |-> <<1>>, cols_to_replace_ |-> <<>>])}

ConcInit ==
  /\ InitMd(Load(PB1).md)
  /\ aborted = FALSE
  /\ hist = [origin |-> "Load", cols_set |-> TRUE]
  /\ call = NoCall
  /\ pre = NewUninitialized
  /\ pc = Idle
  /\ frame = NoFrames
  /\ seen = NoneSeen
  /\ deltas_lock_ = 0

\* Where a thread is while it serializes, before its snapshot is complete.
SerializingPcs == {"tp_cols", "tp_dms", "tp_redo", "tp_undo", "tp_unlock"}

\* Where a thread holds deltas_lock_ in a mutator.
MutatingPcs == {"scdb_assign", "scdb_unlock", "crd_dms", "crd_push", "crd_unlock",
                "cud_push", "cud_unlock", "cu_replace", "cu_append", "cu_cols",
                "cu_unlock"}

\* The descriptor as the last whole operation left it.
Committed ==
  IF \E m \in Threads : pc[m] \in MutatingPcs
  THEN frame[CHOOSE m \in Threads : pc[m] \in MutatingPcs].pre
  ELSE Md

Goto(t, label) == ~aborted /\ pc' = [pc EXCEPT ![t] = label]

\* boost::lock_guard<LockType> l(deltas_lock_) in a mutator.
LockGuard(t, from, to) ==
  /\ pc[t] = from
  /\ deltas_lock_ = 0
  /\ deltas_lock_' = t
  /\ Goto(t, to)
  /\ frame' = [frame EXCEPT ![t] = [pre |-> Md] @@ @]
  /\ UNCHANGED <<mdvars, aborted, hist, seqvars, seen>>

\* The end of the lock_guard's scope in a mutator, and the return; what
\* the caller has afterwards is result.
Unlock(t, from, result) ==
  /\ pc[t] = from
  /\ deltas_lock_' = IF deltas_lock_ = t THEN 0 ELSE deltas_lock_
  /\ Goto(t, "returned")
  /\ frame' = [frame EXCEPT ![t] = result]
  /\ seen' = [s \in Threads |->
                IF pc[s] \in SerializingPcs THEN seen[s] \cup {Md} ELSE seen[s]]
  /\ UNCHANGED <<mdvars, aborted, hist, seqvars>>

UnlockGuard(t, from, status) ==
  Unlock(t, from, [op |-> frame[t].op, status |-> status])

\* A step of thread t inside a handler that changes only the descriptor.
Step(t, from, to, newframe) ==
  /\ pc[t] = from
  /\ Goto(t, to)
  /\ frame' = [frame EXCEPT ![t] = newframe]
  /\ UNCHANGED <<aborted, hist, seqvars, seen, deltas_lock_>>

\* A CHECK of thread t fails: the process terminates.
Die(t, from) ==
  /\ pc[t] = from
  /\ ~aborted
  /\ aborted' = TRUE
  /\ UNCHANGED <<mdvars, hist, seqvars, concvars>>

(* ToProtobuf *)
ToProtobuf_Begin(t) ==
  /\ pc[t] = "idle"
  /\ Goto(t, "tp_cols")
  /\ frame' = [frame EXCEPT ![t] =
                 [op |-> "ToProtobuf", idx |-> 0, end |-> Len(column_blocks_),
                  pb |-> [id |-> id_, columns |-> <<>>]]]
  /\ seen' = [seen EXCEPT ![t] = {Committed}]
  /\ UNCHANGED <<mdvars, aborted, hist, seqvars, deltas_lock_>>

\* One iteration of the loop over column_blocks_: deltas_lock_ is not held.
ToProtobuf_Column(t) ==
  /\ pc[t] = "tp_cols"
  /\ frame[t].idx < frame[t].end
  /\ Step(t, "tp_cols", "tp_cols",
          [frame[t] EXCEPT
             !.idx = @ + 1,
             !.pb.columns =
                Append(@, ColumnDataPB(column_blocks_[frame[t].idx + 1], schema_,
                                       frame[t].idx))])
  /\ UNCHANGED mdvars

\* ToProtobuf_Lock without the lock.
ToProtobuf_NoLock(t) ==
  /\ pc[t] = "tp_cols"
  /\ frame[t].idx = frame[t].end
  /\ Goto(t, "tp_dms")
  /\ UNCHANGED <<mdvars, aborted, hist, seqvars, frame, seen, deltas_lock_>>

ToProtobuf_Lock(t) ==
  /\ pc[t] = "tp_cols"
  /\ frame[t].idx = frame[t].end
  /\ deltas_lock_ = 0
  /\ deltas_lock_' = t
  /\ Goto(t, "tp_dms")
  /\ UNCHANGED <<mdvars, aborted, hist, seqvars, frame, seen>>

ToProtobuf_Watermark(t) ==
  /\ Step(t, "tp_dms", "tp_redo",
          [frame[t] EXCEPT
             !.pb = [last_durable_dms_id |-> last_durable_redo_dms_id_] @@ @])
  /\ UNCHANGED mdvars

ToProtobuf_Redo(t) ==
  /\ Step(t, "tp_redo", "tp_undo",
          [frame[t] EXCEPT
             !.pb = [redo_deltas |-> WriteDeltaFiles(redo_delta_blocks_)] @@ @])
  /\ UNCHANGED mdvars

ToProtobuf_Undo(t) ==
  /\ Step(t, "tp_undo", "tp_unlock",
          [frame[t] EXCEPT
             !.pb = [undo_deltas |-> WriteDeltaFiles(undo_delta_blocks_)] @@ @])
  /\ UNCHANGED mdvars

\* The end of the lock's scope, then the bloom and ad-hoc index blocks.
ToProtobuf_Unlock(t) ==
  /\ pc[t] = "tp_unlock"
  /\ deltas_lock_' = IF deltas_lock_ = t THEN 0 ELSE deltas_lock_
  /\ Goto(t, "tp_done")
  /\ frame' = [frame EXCEPT ![t] =
       [@ EXCEPT !.pb =
          [has_bloom_block |-> ~IsNull(bloom_block_),
           bloom_block |-> IF ~IsNull(bloom_block_)
                           THEN CopyToPB(bloom_block_) ELSE CopyToPB(NullBlockId),
           has_adhoc_index_block |-> ~IsNull(adhoc_index_block_),
           adhoc_index_block |-> IF ~IsNull(adhoc_index_block_)
                                 THEN CopyToPB(adhoc_index_block_)
                                 ELSE CopyToPB(NullBlockId)] @@ @]]
  /\ UNCHANGED <<mdvars, aborted, hist, seqvars, seen>>

\* The caller takes the snapshot.
ToProtobuf_Return(t) ==
  /\ pc[t] = "tp_done"
  /\ Goto(t, "returned")
  /\ frame' = [frame EXCEPT ![t] = [op |-> "ToProtobuf", status |-> "OK"]]
  /\ seen' = [seen EXCEPT ![t] = {}]
  /\ UNCHANGED <<mdvars, aborted, hist, seqvars, deltas_lock_>>

(* SetColumnDataBlocks *)
SetColumnDataBlocks_Begin(t, blocks) ==
  /\ pc[t] = "idle"
  /\ IF Len(blocks) # num_columns(schema_)
     THEN Die(t, "idle")
     ELSE /\ Step(t, "idle", "scdb_lock",
                  [op |-> "SetColumnDataBlocks", blocks |-> blocks, i |-> 1])
          /\ UNCHANGED mdvars

SetColumnDataBlocks_Lock(t) == LockGuard(t, "scdb_lock", "scdb_assign")

\* column_blocks_ = blocks, one element at a time.
SetColumnDataBlocks_Assign(t) ==
  /\ pc[t] = "scdb_assign"
  /\ column_blocks_' =
       [column_blocks_ EXCEPT ![frame[t].i] = frame[t].blocks[frame[t].i]]
  /\ Step(t, "scdb_assign",
          IF frame[t].i = Len(frame[t].blocks) THEN "scdb_unlock" ELSE "scdb_assign",
          [frame[t] EXCEPT !.i = @ + 1])
  /\ UNCHANGED <<initted_, id_, schema_, redo_delta_blocks_, undo_delta_blocks_,
                 last_durable_redo_dms_id_, bloom_block_, adhoc_index_block_>>

SetColumnDataBlocks_Unlock(t) == UnlockGuard(t, "scdb_unlock", "OK")

(* CommitRedoDeltaDataBlock *)
CommitRedoDeltaDataBlock_Begin(t, dms_id, block_id) ==
  /\ Step(t, "idle", "crd_lock",
          [op |-> "CommitRedoDeltaDataBlock", dms_id |-> dms_id,
           block_id |-> block_id])
  /\ UNCHANGED mdvars

CommitRedoDeltaDataBlock_Lock(t) == LockGuard(t, "crd_lock", "crd_dms")

CommitRedoDeltaDataBlock_Watermark(t) ==
  /\ Step(t, "crd_dms", "crd_push", frame[t])
  /\ last_durable_redo_dms_id_' = frame[t].dms_id
  /\ UNCHANGED <<initted_, id_, schema_, column_blocks_, redo_delta_blocks_,
                 undo_delta_blocks_, bloom_block_, adhoc_index_block_>>

CommitRedoDeltaDataBlock_Push(t) ==
  /\ Step(t, "crd_push", "crd_unlock", frame[t])
  /\ redo_delta_blocks_' = Append(redo_delta_blocks_, frame[t].block_id)
  /\ UNCHANGED <<initted_, id_, schema_, column_blocks_, undo_delta_blocks_,
                 last_durable_redo_dms_id_, bloom_block_, adhoc_index_block_>>

CommitRedoDeltaDataBlock_Unlock(t) == UnlockGuard(t, "crd_unlock", "OK")

(* CommitUndoDeltaDataBlock *)
CommitUndoDeltaDataBlock_Begin(t, block_id) ==
  /\ Step(t, "idle", "cud_lock",
          [op |-> "CommitUndoDeltaDataBlock", block_id |-> block_id])
  /\ UNCHANGED mdvars

CommitUndoDeltaDataBlock_Lock(t) == LockGuard(t, "cud_lock", "cud_push")

CommitUndoDeltaDataBlock_Push(t) ==
  /\ Step(t, "cud_push", "cud_unlock", frame[t])
  /\ undo_delta_blocks_' = Append(undo_delta_blocks_, frame[t].block_id)
  /\ UNCHANGED <<initted_, id_, schema_, column_blocks_, redo_delta_blocks_,
                 last_durable_redo_dms_id_, bloom_block_, adhoc_index_block_>>

CommitUndoDeltaDataBlock_Unlock(t) == UnlockGuard(t, "cud_unlock", "OK")

(* CommitUpdate *)
CommitUpdate_Begin(t, update) ==
  /\ Step(t, "idle", "cu_lock",
          [op |-> "CommitUpdate", update |-> update, i |-> 1, status |-> "OK"])
  /\ UNCHANGED mdvars

CommitUpdate_Lock(t) == LockGuard(t, "cu_lock", "cu_replace")

\* One iteration of the loop over update.replace_redo_blocks_, or its end.
CommitUpdate_Replace(t) ==
  /\ pc[t] = "cu_replace"
  /\ IF frame[t].i > Len(frame[t].update.replace_redo_blocks_)
     THEN /\ Step(t, "cu_replace", "cu_append", frame[t])
          /\ UNCHANGED mdvars
     ELSE LET r == ReplaceDeltaBlocks(redo_delta_blocks_,
                                      frame[t].update.replace_redo_blocks_[frame[t].i])
          IN IF r.status = "FATAL"
             THEN Die(t, "cu_replace")
             ELSE /\ Step(t, "cu_replace",
                          IF r.status = "OK" THEN "cu_replace" ELSE "cu_unlock",
                          [frame[t] EXCEPT !.i = @ + 1, !.status = r.status])
                  /\ redo_delta_blocks_' = r.chain
                  /\ UNCHANGED <<initted_, id_, schema_, column_blocks_,
                                 undo_delta_blocks_, last_durable_redo_dms_id_,
                                 bloom_block_, adhoc_index_block_>>

\* The loop over update.new_redo_blocks_.
CommitUpdate_Append(t) ==
  /\ Step(t, "cu_append", "cu_cols", frame[t])
  /\ redo_delta_blocks_' =
       AddNewRedoBlocks(redo_delta_blocks_, frame[t].update.new_redo_blocks_)
  /\ UNCHANGED <<initted_, id_, schema_, column_blocks_, undo_delta_blocks_,
                 last_durable_redo_dms_id_, bloom_block_, adhoc_index_block_>>

\* The loop over update.cols_to_replace_.
CommitUpdate_Columns(t) ==
  /\ pc[t] = "cu_cols"
  /\ LET c == ReplaceColumns(column_blocks_, frame[t].update.cols_to_replace_)
     IN IF c.status = "FATAL"
        THEN Die(t, "cu_cols")
        ELSE /\ Step(t, "cu_cols", "cu_unlock", frame[t])
             /\ column_blocks_' = c.column_blocks
             /\ UNCHANGED <<initted_, id_, schema_, redo_delta_blocks_,
                            undo_delta_blocks_, last_durable_redo_dms_id_,
                            bloom_block_, adhoc_index_block_>>

\* CommitUpdate_Unlock releasing the lock only on the success path.
CommitUpdate_UnlockOnSuccessOnly(t) ==
  /\ pc[t] = "cu_unlock"
  /\ deltas_lock_' = IF deltas_lock_ = t /\ frame[t].status = "OK" THEN 0 ELSE deltas_lock_
  /\ Goto(t, "returned")
  /\ frame' = [frame EXCEPT ![t] =
       [op |-> frame[t].op, update |-> frame[t].update, status |-> frame[t].status]]
  /\ seen' = [s \in Threads |->
                IF pc[s] \in SerializingPcs THEN seen[s] \cup {Md} ELSE seen[s]]
  /\ UNCHANGED <<mdvars, aborted, hist, seqvars>>

\* The caller still has the update it passed.
CommitUpdate_Unlock(t) ==
  Unlock(t, "cu_unlock",
         [op |-> frame[t].op, update |-> frame[t].update, status |-> frame[t].status])

ThreadStep(t) ==
  \/ ToProtobuf_Begin(t)
  \/ ToProtobuf_Column(t)
  \/ ToProtobuf_Lock(t)
  \/ ToProtobuf_Watermark(t)
  \/ ToProtobuf_Redo(t)
  \/ ToProtobuf_Undo(t)
  \/ ToProtobuf_Unlock(t)
  \/ ToProtobuf_Return(t)
  \/ \E blocks \in ConcColumnVectors : SetColumnDataBlocks_Begin(t, blocks)
  \/ SetColumnDataBlocks_Lock(t)
  \/ SetColumnDataBlocks_Assign(t)
  \/ SetColumnDataBlocks_Unlock(t)
  \/ \E dms_id \in DmsIds, block_id \in BlockIds :
       CommitRedoDeltaDataBlock_Begin(t, dms_id, block_id)
  \/ CommitRedoDeltaDataBlock_Lock(t)
  \/ CommitRedoDeltaDataBlock_Watermark(t)
  \/ CommitRedoDeltaDataBlock_Push(t)
  \/ CommitRedoDeltaDataBlock_Unlock(t)
  \/ \E block_id \in BlockIds : CommitUndoDeltaDataBlock_Begin(t, block_id)
  \/ CommitUndoDeltaDataBlock_Lock(t)
  \/ CommitUndoDeltaDataBlock_Push(t)
  \/ CommitUndoDeltaDataBlock_Unlock(t)
  \/ \E update \in ConcUpdates : CommitUpdate_Begin(t, update)
  \/ CommitUpdate_Lock(t)
  \/ CommitUpdate_Replace(t)
  \/ CommitUpdate_Append(t)
  \/ CommitUpdate_Columns(t)
  \/ CommitUpdate_Unlock(t)

ConcNext == \E t \in Threads : ThreadStep(t)

ConcSpec == ConcInit /\ [][ConcNext]_vars

(***************************************************************************)
(* What the claims speak of, stated without the handlers' code.            *)
(***************************************************************************)
\* The first position of chain holding b, or 0.
FirstPosition(chain, b) ==
  IF \E i \in 1..Len(chain) : chain[i] = b
  THEN CHOOSE i \in 1..Len(chain) :
         chain[i] = b /\ \A j \in 1..(i - 1) : chain[j] # b
  ELSE 0

\* run lies in chain at positions p .. p + Len(run) - 1.
RunAt(chain, p, run) ==
  /\ p >= 1
  /\ p + Len(run) - 1 <= Len(chain)
  /\ \A k \in 1..Len(run) : chain[p + k - 1] = run[k]

\* run is non-empty and lies in chain from the first position of run[1].
MatchesAtFirst(chain, run) ==
  run # <<>> /\ RunAt(chain, FirstPosition(chain, run[1]), run)

\* chain with that run replaced by add.
Spliced(chain, run, add) ==
  LET p == FirstPosition(chain, run[1])
  IN [i \in 1..(Len(chain) - Len(run) + Len(add)) |->
        IF i < p THEN chain[i]
        ELSE IF i < p + Len(add) THEN add[i - p + 1]
        ELSE chain[i - Len(add) + Len(run)]]

\* chain after the first n entries of reps, each of which matched.
RECURSIVE AfterEntries(_, _, _)
AfterEntries(chain, reps, n) ==
  IF n = 0 THEN chain
  ELSE Spliced(AfterEntries(chain, reps, n - 1), reps[n].to_remove, reps[n].to_add)

\* Entries 1..n of reps match, each against the chain the ones before left.
RECURSIVE AllMatch(_, _, _)
AllMatch(chain, reps, n) ==
  \/ n = 0
  \/ /\ AllMatch(chain, reps, n - 1)
     /\ MatchesAtFirst(AfterEntries(chain, reps, n - 1), reps[n].to_remove)

\* Entry k of reps is the first that does not match.
FirstFailingIs(chain, reps, k) ==
  /\ k \in 1..Len(reps)
  /\ AllMatch(chain, reps, k - 1)
  /\ ~MatchesAtFirst(AfterEntries(chain, reps, k - 1), reps[k].to_remove)

NoEmptyRemoval(reps) == \A i \in 1..Len(reps) : reps[i].to_remove # <<>>

\* The last call was CommitUpdate and it returned (it did not die).
CommitUpdateReturned ==
  call.op = "CommitUpdate" /\ call.status \in {"OK", "InvalidArgument"}

\* The update of the last call carries one replacement entry and nothing else.
OnlyOneEntry(update) ==
  /\ Len(update.replace_redo_blocks_) = 1
  /\ update.new_redo_blocks_ = <<>>
  /\ DOMAIN update.cols_to_replace_ = {}

(***************************************************************************)
(* C1: a CommitUpdate carrying one replacement entry (and nothing else)    *)
(* whose non-empty to_remove matches the redo chain element by element     *)
(* from the first position equal to to_remove[0] returns success, and the  *)
(* new chain is the old chain before that position, then to_add, then the  *)
(* old chain after the matched run.                                        *)
(***************************************************************************)
C1_ReplaceSplices ==
  (call.op = "CommitUpdate" /\ OnlyOneEntry(call.update)) =>
    LET rep == call.update.replace_redo_blocks_[1]
        old == pre.redo_delta_blocks
        p == FirstPosition(old, rep.to_remove[1])
    IN MatchesAtFirst(old, rep.to_remove) =>
         /\ call.status = "OK"
         /\ redo_delta_blocks_ =
              SubSeq(old, 1, p - 1) \o rep.to_add
                \o SubSeq(old, p + Len(rep.to_remove), Len(old))

\* [a,b,c] with remove [b], add [x], x # b: the middle block is replaced.
C1_Witness ==
  /\ call.op = "CommitUpdate" /\ OnlyOneEntry(call.update) /\ call.status = "OK"
  /\ Len(pre.redo_delta_blocks) = 3
  /\ LET rep == call.update.replace_redo_blocks_[1]
     IN /\ Len(rep.to_remove) = 1 /\ Len(rep.to_add) = 1
        /\ rep.to_remove[1] = pre.redo_delta_blocks[2]
        /\ rep.to_remove[1] # pre.redo_delta_blocks[1]
        /\ rep.to_add[1] # rep.to_remove[1]
        /\ redo_delta_blocks_ = [pre.redo_delta_blocks EXCEPT ![2] = rep.to_add[1]]

(***************************************************************************)
(* C2: a CommitUpdate carrying a single replacement entry whose non-empty  *)
(* to_remove does not lie in the redo chain from the first position equal  *)
(* to to_remove[0] (first block absent, run cut short by the end of the    *)
(* chain, or a block mismatched; so also when it lies nowhere in the       *)
(* chain) returns InvalidArgument and leaves redo_delta_blocks as it was.  *)
(***************************************************************************)
C2_NotFoundRejected ==
  (call.op = "CommitUpdate" /\ Len(call.update.replace_redo_blocks_) = 1) =>
    LET rep == call.update.replace_redo_blocks_[1]
    IN (rep.to_remove # <<>> /\ ~MatchesAtFirst(pre.redo_delta_blocks, rep.to_remove)) =>
         /\ call.status = "InvalidArgument"
         /\ redo_delta_blocks_ = pre.redo_delta_blocks

\* [.., b, c] with remove [b, d], d # c: the first block is found, the second differs.
C2_Witness ==
  /\ call.op = "CommitUpdate" /\ Len(call.update.replace_redo_blocks_) = 1
  /\ call.status = "InvalidArgument"
  /\ LET rep == call.update.replace_redo_blocks_[1]
         old == pre.redo_delta_blocks
         p == FirstPosition(old, rep.to_remove[1])
     IN /\ Len(rep.to_remove) = 2 /\ p >= 2 /\ p < Len(old)
        /\ old[p + 1] # rep.to_remove[2]
        /\ redo_delta_blocks_ = old

(***************************************************************************)
(* C3: a CommitUpdate with several replacement entries of which entries    *)
(* 1..k-1 match and entry k does not returns InvalidArgument, and          *)
(* redo_delta_blocks is the old chain with entries 1..k-1 applied: entry k *)
(* and the later entries have no effect.                                   *)
(***************************************************************************)
C3_PartialFailure ==
  (call.op = "CommitUpdate" /\ Len(call.update.replace_redo_blocks_) >= 2
     /\ NoEmptyRemoval(call.update.replace_redo_blocks_)) =>
    \A k \in 1..Len(call.update.replace_redo_blocks_) :
      FirstFailingIs(pre.redo_delta_blocks, call.update.replace_redo_blocks_, k) =>
        /\ call.status = "InvalidArgument"
        /\ redo_delta_blocks_ =
             AfterEntries(pre.redo_delta_blocks, call.update.replace_redo_blocks_, k - 1)

\* Two entries: the first changed the chain, the second was not found.
C3_Witness ==
  /\ call.op = "CommitUpdate" /\ Len(call.update.replace_redo_blocks_) = 2
  /\ call.status = "InvalidArgument"
  /\ FirstFailingIs(pre.redo_delta_blocks, call.update.replace_redo_blocks_, 2)
  /\ redo_delta_blocks_ # pre.redo_delta_blocks
  /\ redo_delta_blocks_ =
       Spliced(pre.redo_delta_blocks, call.update.replace_redo_blocks_[1].to_remove,
               call.update.replace_redo_blocks_[1].to_add)

(***************************************************************************)
(* C4, as amended: CommitUpdate returns success only if every replacement  *)
(* entry matched; when it returns an error, undo_delta_blocks, the         *)
(* watermark and column_blocks are as before the call, and                 *)
(* redo_delta_blocks is the old chain with the entries before the first    *)
(* failing one applied (the old chain itself when the first entry fails).  *)
(***************************************************************************)
C4_ErrorKeepsAppliedEntries ==
  CommitUpdateReturned =>
    LET reps == call.update.replace_redo_blocks_
    IN /\ call.status = "OK" => AllMatch(pre.redo_delta_blocks, reps, Len(reps))
       /\ call.status = "InvalidArgument" =>
            /\ undo_delta_blocks_ = pre.undo_delta_blocks
            /\ last_durable_redo_dms_id_ = pre.last_durable_redo_dms_id
            /\ column_blocks_ = pre.column_blocks
            /\ \E k \in 1..Len(reps) :
                 /\ FirstFailingIs(pre.redo_delta_blocks, reps, k)
                 /\ redo_delta_blocks_ = AfterEntries(pre.redo_delta_blocks, reps, k - 1)

\* C4 as claimed: on an error the whole state is as before the call.
C4_AllOrNothing ==
  CommitUpdateReturned =>
    LET reps == call.update.replace_redo_blocks_
    IN /\ call.status = "OK" => AllMatch(pre.redo_delta_blocks, reps, Len(reps))
       /\ call.status = "InvalidArgument" =>
            /\ redo_delta_blocks_ = pre.redo_delta_blocks
            /\ undo_delta_blocks_ = pre.undo_delta_blocks
            /\ last_durable_redo_dms_id_ = pre.last_durable_redo_dms_id
            /\ column_blocks_ = pre.column_blocks

\* A failing update that also names a column to replace, on a descriptor
\* with a non-empty undo chain.
C4_Witness ==
  /\ call.op = "CommitUpdate" /\ call.status = "InvalidArgument"
  /\ DOMAIN call.update.cols_to_replace_ = {0}
  /\ Len(column_blocks_) = 2
  /\ call.update.cols_to_replace_[0] # column_blocks_[1]
  /\ undo_delta_blocks_ # <<>>
  /\ redo_delta_blocks_ = pre.redo_delta_blocks

(***************************************************************************)
(* C5: after a successful CommitUpdate the blocks of new_redo_blocks_ are  *)
(* the tail of redo_delta_blocks, in their order, after everything the     *)
(* replacement entries produced or left in place.                          *)
(***************************************************************************)
C5_AppendsAtTail ==
  (call.op = "CommitUpdate" /\ call.status = "OK") =>
    LET reps == call.update.replace_redo_blocks_
        app == call.update.new_redo_blocks_
        n == Len(redo_delta_blocks_)
    IN /\ n >= Len(app)
       /\ SubSeq(redo_delta_blocks_, n - Len(app) + 1, n) = app
       /\ SubSeq(redo_delta_blocks_, 1, n - Len(app)) =
            AfterEntries(pre.redo_delta_blocks, reps, Len(reps))

\* Two different blocks appended by an update whose replacement entry put
\* another block in the chain.
C5_Witness ==
  /\ call.op = "CommitUpdate" /\ call.status = "OK"
  /\ Len(call.update.new_redo_blocks_) = 2
  /\ call.update.new_redo_blocks_[1] # call.update.new_redo_blocks_[2]
  /\ Len(call.update.replace_redo_blocks_) = 1
  /\ Len(call.update.replace_redo_blocks_[1].to_add) = 1
  /\ redo_delta_blocks_ =
       call.update.replace_redo_blocks_[1].to_add \o call.update.new_redo_blocks_

(***************************************************************************)
(* C8, as amended: for every state of a descriptor made by Load or         *)
(* CreateNew and changed by any calls, in which column_blocks holds one    *)
(* block per column of the schema, ToProtobuf and then Load give a         *)
(* descriptor with the same id, column blocks, schema, redo and undo       *)
(* chains, watermark, bloom and ad-hoc index blocks.                       *)
(***************************************************************************)
RoundTrip(md) ==
  LET r == Load(ToProtobuf(md))
  IN r.status = "OK" /\ r.md = md

C8_RoundTripWithColumns ==
  (initted_ /\ ~aborted /\ Len(column_blocks_) = num_columns(schema_)) =>
    RoundTrip(Md)

\* C8 as claimed: in every state of an initialized descriptor.
C8_RoundTripAlways == (initted_ /\ ~aborted) => RoundTrip(Md)

\* A loaded descriptor with a bloom block, its chains changed since the
\* load, has just been serialized.
C8_Witness ==
  /\ call.op = "ToProtobuf" /\ hist.origin = "Load"
  /\ ~IsNull(bloom_block_)
  /\ Len(column_blocks_) = 2 /\ Len(redo_delta_blocks_) = 3
  /\ Len(undo_delta_blocks_) = 2
  /\ Load(call.pb).status = "OK" /\ Load(call.pb).md = Md

(***************************************************************************)
(* C9, as amended: in every state of an initialized descriptor, the        *)
(* length of column_blocks equals schema.num_columns() once the column     *)
(* blocks have been given (by a successful Load, or by SetColumnDataBlocks *)
(* after CreateNew); between CreateNew and the first SetColumnDataBlocks   *)
(* column_blocks is empty.                                                 *)
(***************************************************************************)
C9_ColumnCountOnceSet ==
  (initted_ /\ ~aborted) =>
    IF hist.cols_set
    THEN Len(column_blocks_) = num_columns(schema_)
    ELSE hist.origin = "CreateNew" /\ column_blocks_ = <<>>

\* C9 as claimed: in every state of an initialized descriptor.
C9_ColumnCountAlways ==
  (initted_ /\ ~aborted) => Len(column_blocks_) = num_columns(schema_)

\* A created descriptor, its column blocks set, has had a column replaced.
C9_Witness ==
  /\ hist.origin = "CreateNew" /\ hist.cols_set
  /\ call.op = "CommitUpdate" /\ call.status = "OK"
  /\ column_blocks_ # pre.column_blocks
  /\ Len(column_blocks_) = 2 /\ num_columns(schema_) = 2

(***************************************************************************)
(* C10: every call on an initialized descriptor leaves the old             *)
(* undo_delta_blocks a prefix of the new one; CommitUndoDeltaDataBlock     *)
(* appends exactly its block at the tail and no other call changes it.     *)
(***************************************************************************)
C10_UndoAppendOnly ==
  (call.op \notin {"none", "CreateNew", "Load"}) =>
    /\ IsPrefix(pre.undo_delta_blocks, undo_delta_blocks_)
    /\ IF call.op = "CommitUndoDeltaDataBlock"
       THEN undo_delta_blocks_ = Append(pre.undo_delta_blocks, call.block_id)
       ELSE undo_delta_blocks_ = pre.undo_delta_blocks

\* A block appended to a non-empty undo chain that begins with another block.
C10_Witness ==
  /\ call.op = "CommitUndoDeltaDataBlock"
  /\ pre.undo_delta_blocks # <<>>
  /\ call.block_id # pre.undo_delta_blocks[1]
  /\ undo_delta_blocks_ = Append(pre.undo_delta_blocks, call.block_id)

(***************************************************************************)
(* C6: the column blocks, chains and watermark that one ToProtobuf call    *)
(* wrote are those of the descriptor at one single point between whole     *)
(* operations during the call.                                             *)
(***************************************************************************)
C6_SnapshotOfOneState ==
  \A t \in Threads :
    pc[t] = "tp_done" =>
      \E s \in seen[t] :
        /\ frame[t].pb.columns = WriteColumnFiles(s.column_blocks, s.schema)
        /\ frame[t].pb.redo_deltas = WriteDeltaFiles(s.redo_delta_blocks)
        /\ frame[t].pb.undo_deltas = WriteDeltaFiles(s.undo_delta_blocks)
        /\ frame[t].pb.last_durable_dms_id = s.last_durable_redo_dms_id

(***************************************************************************)
(* C7: the redo chain, undo chain and watermark that one ToProtobuf call   *)
(* wrote are those of the descriptor at one single point between whole     *)
(* commits during the call, never part of a commit's effect.               *)
(***************************************************************************)
C7_DeltasOfOneState ==
  \A t \in Threads :
    pc[t] = "tp_done" =>
      \E s \in seen[t] :
        /\ frame[t].pb.redo_deltas = WriteDeltaFiles(s.redo_delta_blocks)
        /\ frame[t].pb.undo_deltas = WriteDeltaFiles(s.undo_delta_blocks)
        /\ frame[t].pb.last_durable_dms_id = s.last_durable_redo_dms_id

\* A serialization during which a commit changed the watermark and the redo
\* chain, and another thread is inside a commit when the snapshot is done.
C7_Witness ==
  \E t \in Threads :
    /\ pc[t] = "tp_done"
    /\ \E s1, s2 \in seen[t] :
         /\ s1.last_durable_redo_dms_id # s2.last_durable_redo_dms_id
         /\ s1.redo_delta_blocks # s2.redo_delta_blocks
    /\ frame[t].pb.redo_deltas = WriteDeltaFiles(redo_delta_blocks_)
    /\ frame[t].pb.last_durable_dms_id = last_durable_redo_dms_id_
    /\ \E m \in Threads : pc[m] \in MutatingPcs

(***************************************************************************)
(* C11: CommitRedoDeltaDataBlock(dms_id, block_id) returns success; after  *)
(* it redo_delta_blocks is the previous chain with block_id appended at    *)
(* the tail and the watermark is dms_id, while undo_delta_blocks and       *)
(* column_blocks are unchanged.                                            *)
(***************************************************************************)
C11_CommitRedoAppends ==
  call.op = "CommitRedoDeltaDataBlock" =>
    /\ call.status = "OK"
    /\ redo_delta_blocks_ = Append(pre.redo_delta_blocks, call.block_id)
    /\ last_durable_redo_dms_id_ = call.dms_id
    /\ undo_delta_blocks_ = pre.undo_delta_blocks
    /\ column_blocks_ = pre.column_blocks

\* A block appended to a non-empty chain with a watermark other than the
\* one held, on a descriptor with column blocks and an undo chain.
C11_Witness ==
  /\ call.op = "CommitRedoDeltaDataBlock" /\ call.status = "OK"
  /\ pre.redo_delta_blocks # <<>>
  /\ call.block_id # pre.redo_delta_blocks[Len(pre.redo_delta_blocks)]
  /\ call.dms_id # pre.last_durable_redo_dms_id
  /\ pre.undo_delta_blocks # <<>> /\ pre.column_blocks # <<>>
  /\ redo_delta_blocks_ = Append(pre.redo_delta_blocks, call.block_id)
  /\ last_durable_redo_dms_id_ = call.dms_id

(***************************************************************************)
(* C12: the watermark is monotonic: no call on an initialized descriptor   *)
(* leaves last_durable_redo_dms_id_ lower than it was before the call (so  *)
(* it never takes a value lower than one it held earlier).                 *)
(***************************************************************************)
C12_WatermarkNeverLower ==
  (call.op \notin {"none", "CreateNew", "Load"}) =>
    last_durable_redo_dms_id_ >= pre.last_durable_redo_dms_id

(***************************************************************************)
(* C13: SetColumnDataBlocks(blocks) with a number of blocks other than     *)
(* schema.num_columns() is fatal and leaves column_blocks and every other  *)
(* field as they were; with the matching number it makes column_blocks     *)
(* equal to blocks (and changes nothing else).                             *)
(***************************************************************************)
C13_SetColumnDataBlocksChecked ==
  call.op = "SetColumnDataBlocks" =>
    IF Len(call.blocks) # num_columns(pre.schema)
    THEN call.status = "FATAL" /\ aborted /\ Md = pre
    ELSE /\ call.status = "OK" /\ ~aborted
         /\ column_blocks_ = call.blocks
         /\ Md = [pre EXCEPT !.column_blocks = call.blocks]

\* One block given to a descriptor of two columns that holds two blocks.
C13_Witness ==
  /\ call.op = "SetColumnDataBlocks" /\ call.status = "FATAL"
  /\ Len(call.blocks) = 1 /\ num_columns(schema_) = 2
  /\ Len(column_blocks_) = 2 /\ column_blocks_[1] # call.blocks[1]
  /\ Md = pre

(***************************************************************************)
(* C14: InitFromPB on a descriptor that is already initialized is fatal    *)
(* and no field has been modified when it dies; and no call on an          *)
(* initialized descriptor clears initted_, so the flag goes from false to  *)
(* true at most once.                                                      *)
(***************************************************************************)
C14_InitOnce ==
  (call.op # "none" /\ pre.initted) =>
    /\ initted_
    /\ call.op = "InitFromPB" => (call.status = "FATAL" /\ aborted /\ Md = pre)

\* A second InitFromPB, from a persisted form with another id and other
\* chains than the descriptor holds.
C14_Witness ==
  /\ call.op = "InitFromPB" /\ pre.initted /\ call.status = "FATAL"
  /\ call.pb.id # id_
  /\ call.pb.redo_deltas # <<>> /\ call.pb.columns # <<>>
  /\ Md = pre

(***************************************************************************)
(* BuildSpec: one caller builds a RowSetMetadataUpdate call by call, the   *)
(* update being a local of the caller (in its frame), and commits it once  *)
(* to the descriptor loaded from PB1.                                      *)
(***************************************************************************)
MaxEntries == 2       \* most replacement entries in an update being built

Builders == {1}

\* RowSetMetadataUpdate update;
Build_New(t) ==
  /\ pc[t] = "idle"
  /\ Goto(t, "build")
  /\ frame' = [frame EXCEPT ![t] =
                 [op |-> "RowSetMetadataUpdate", update |-> EmptyUpdate, status |-> "OK"]]
  /\ UNCHANGED <<mdvars, aborted, hist, seqvars, seen, deltas_lock_>>

\* update.ReplaceRedoDeltaBlocks(to_remove, to_add)
Build_ReplaceRedoDeltaBlocks(t) ==
  /\ pc[t] = "build"
  /\ Len(frame[t].update.replace_redo_blocks_) < MaxEntries
  /\ \E to_remove \in Runs(0, 2), to_add \in Runs(0, 1) :
       /\ Goto(t, "build")
       /\ frame' = [frame EXCEPT ![t] =
            [op |-> "ReplaceRedoDeltaBlocks",
             to_remove |-> to_remove, to_add |-> to_add,
             before |-> frame[t].update,
             update |-> ReplaceRedoDeltaBlocks(frame[t].update, to_remove, to_add),
             status |-> "OK"]]
  /\ UNCHANGED <<mdvars, aborted, hist, seqvars, seen, deltas_lock_>>

\* update.ReplaceColumnBlock(col_idx, block_id); InsertOrDie may terminate
\* the process.
Build_ReplaceColumnBlock(t) ==
  /\ pc[t] = "build"
  /\ \E col_idx \in 0..1, block_id \in BlockIds :
       \E r \in {ReplaceColumnBlock(frame[t].update, col_idx, block_id)} :
          /\ Goto(t, "build")
          /\ frame' = [frame EXCEPT ![t] =
               [op |-> "ReplaceColumnBlock", col_idx |-> col_idx,
                block_id |-> block_id, update |-> r.update, status |-> r.status]]
          /\ aborted' = (r.status = "FATAL")
  /\ UNCHANGED <<mdvars, hist, seqvars, seen, deltas_lock_>>

\* CommitUpdate(update), by the only caller: the whole handler.
Build_CommitUpdate(t) ==
  /\ pc[t] = "build"
  /\ \E r \in {CommitUpdate(Md, frame[t].update)} :
       /\ Goto(t, "returned")
       /\ frame' = [frame EXCEPT ![t] =
            [op |-> "CommitUpdate", update |-> frame[t].update, pre |-> Md,
             status |-> r.status]]
       /\ SetMd(r.md)
       /\ aborted' = (r.status = "FATAL")
  /\ UNCHANGED <<hist, seqvars, seen, deltas_lock_>>

BuildNext ==
  \E t \in Builders :
    \/ Build_New(t)
    \/ Build_ReplaceRedoDeltaBlocks(t)
    \/ Build_ReplaceColumnBlock(t)
    \/ Build_CommitUpdate(t)

BuildSpec == ConcInit /\ [][BuildNext]_vars

\* Some entry of reps has nothing to remove and every entry before it matches.
ReachesEmptyRemoval(chain, reps) ==
  \E k \in 1..Len(reps) :
    /\ reps[k].to_remove = <<>>
    /\ AllMatch(chain, reps, k - 1)

(***************************************************************************)
(* C15, as amended: ReplaceRedoDeltaBlocks(to_remove, to_add) records the  *)
(* entry whatever to_remove is, also an empty one, and does not fail; an   *)
(* update holding an entry with an empty to_remove is rejected only by     *)
(* CommitUpdate, which dies when it reaches that entry (and only then).    *)
(***************************************************************************)
C15_EmptyRemovalRejectedAtCommit ==
  \A t \in Builders :
    /\ (pc[t] = "build" /\ frame[t].op = "ReplaceRedoDeltaBlocks") =>
         /\ ~aborted
         /\ frame[t].update.replace_redo_blocks_ =
              Append(frame[t].before.replace_redo_blocks_,
                     [to_remove |-> frame[t].to_remove, to_add |-> frame[t].to_add])
    /\ (pc[t] = "returned" /\ frame[t].op = "CommitUpdate"
          /\ \A idx \in DOMAIN frame[t].update.cols_to_replace_ :
               idx < Len(frame[t].pre.column_blocks)) =>
         (aborted <=> ReachesEmptyRemoval(frame[t].pre.redo_delta_blocks,
                                          frame[t].update.replace_redo_blocks_))

\* C15 as claimed: an update being built never holds an entry whose
\* to_remove is empty.
C15_BuilderRejectsEmpty ==
  \A t \in Builders :
    (pc[t] = "build" /\ ~aborted) =>
      NoEmptyRemoval(frame[t].update.replace_redo_blocks_)

\* The builder has just recorded a second entry, with nothing to remove,
\* after a first one with a block to remove.
C15_Witness ==
  \E t \in Builders :
    /\ pc[t] = "build" /\ ~aborted
    /\ frame[t].op = "ReplaceRedoDeltaBlocks" /\ frame[t].to_remove = <<>>
    /\ Len(frame[t].update.replace_redo_blocks_) = 2
    /\ frame[t].update.replace_redo_blocks_[1].to_remove # <<>>
    /\ frame[t].update.replace_redo_blocks_[2].to_remove = <<>>

(***************************************************************************)
(* CasSpec: two compactions have read the redo chain [1,2,3] of a loaded   *)
(* descriptor, and each commits one CommitUpdate with a single entry that  *)
(* replaces a run of blocks by one block.                                  *)
(***************************************************************************)
CasThreads == {1, 2}

CasChain == <<1, 2, 3>>

PBCas == [PB1 EXCEPT !.redo_deltas = WriteDeltaFiles(CasChain)]

\* Runs of the chain replaced by a block not in the chain (4, 5) or by one
\* that is in it (1).
CasUpdates ==
  {ReplaceRedoDeltaBlocks(EmptyUpdate, rm, add) :
     rm \in {<<1>>, <<2>>, <<3>>, <<1, 2>>, <<2, 3>>},
     add \in {<<4>>, <<5>>, <<1>>}}

CasInit ==
  /\ InitMd(Load(PBCas).md)
  /\ aborted = FALSE
  /\ hist = [origin |-> "Load", cols_set |-> TRUE]
  /\ call = NoCall
  /\ pre = NewUninitialized
  /\ pc = Idle
  /\ frame = NoFrames
  /\ seen = NoneSeen
  /\ deltas_lock_ = 0

CasNext ==
  \E t \in CasThreads :
    \/ \E update \in CasUpdates : CommitUpdate_Begin(t, update)
    \/ CommitUpdate_Lock(t)
    \/ CommitUpdate_Replace(t)
    \/ CommitUpdate_Append(t)
    \/ CommitUpdate_Columns(t)
    \/ CommitUpdate_Unlock(t)

CasSpec == CasInit /\ [][CasNext]_vars

\* Thread t has returned from its CommitUpdate.
CasReturned(t) == pc[t] = "returned" /\ frame[t].op = "CommitUpdate"

\* The two updates remove runs with a block in common and add blocks that
\* the chain did not hold.
CasConflict(u1, u2) ==
  LET e1 == u1.replace_redo_blocks_[1]
      e2 == u2.replace_redo_blocks_[1]
  IN /\ Range(e1.to_remove) \cap Range(e2.to_remove) # {}
     /\ (Range(e1.to_add) \cup Range(e2.to_add)) \cap Range(CasChain) = {}

(***************************************************************************)
(* C16: when two threads have read the same redo chain (all block ids      *)
(* distinct) and each commits a single-entry CommitUpdate, the runs        *)
(* removed sharing a block and the blocks added being fresh, then in every *)
(* interleaving at most one call returns success; the other returns        *)
(* InvalidArgument and the chain is as the successful call produced it.    *)
(***************************************************************************)
C16_AtMostOneCommits ==
  \A t1, t2 \in CasThreads :
    (t1 # t2 /\ CasReturned(t1) /\ CasReturned(t2)
       /\ CasConflict(frame[t1].update, frame[t2].update)) =>
      /\ ~(frame[t1].status = "OK" /\ frame[t2].status = "OK")
      /\ frame[t1].status = "OK" =>
           /\ frame[t2].status = "InvalidArgument"
           /\ redo_delta_blocks_ =
                Spliced(CasChain, frame[t1].update.replace_redo_blocks_[1].to_remove,
                        frame[t1].update.replace_redo_blocks_[1].to_add)

\* [1,2] replaced by 4 has won against [2,3] replaced by 5.
C16_Witness ==
  \E t1, t2 \in CasThreads :
    /\ t1 # t2 /\ CasReturned(t1) /\ CasReturned(t2)
    /\ frame[t1].update.replace_redo_blocks_[1] = [to_remove |-> <<1, 2>>, to_add |-> <<4>>]
    /\ frame[t2].update.replace_redo_blocks_[1] = [to_remove |-> <<2, 3>>, to_add |-> <<5>>]
    /\ frame[t1].status = "OK" /\ frame[t2].status = "InvalidArgument"
    /\ redo_delta_blocks_ = <<4, 3>>

\* run lies somewhere in chain as a contiguous run.
OccursSomewhere(chain, run) == \E p \in 1..Len(chain) : RunAt(chain, p, run)

(***************************************************************************)
(* C17, as amended: a replacement entry (non-empty to_remove) of a         *)
(* CommitUpdate that returns succeeds if and only if to_remove lies in the *)
(* redo chain from the FIRST position whose block equals to_remove[0]; in  *)
(* a chain whose block ids are all different that is the same as lying     *)
(* somewhere in the chain as a contiguous run.                             *)
(***************************************************************************)
C17_SucceedsIffAtFirst ==
  (CommitUpdateReturned /\ Len(call.update.replace_redo_blocks_) = 1
     /\ call.update.replace_redo_blocks_[1].to_remove # <<>>) =>
    LET run == call.update.replace_redo_blocks_[1].to_remove
        old == pre.redo_delta_blocks
    IN /\ call.status = "OK" <=> MatchesAtFirst(old, run)
       /\ Injective(old) => (call.status = "OK" <=> OccursSomewhere(old, run))

\* C17 as claimed: the entry succeeds if and only if to_remove lies
\* somewhere in the chain, whatever the chain.
C17_SucceedsIffSomewhere ==
  (CommitUpdateReturned /\ Len(call.update.replace_redo_blocks_) = 1
     /\ call.update.replace_redo_blocks_[1].to_remove # <<>>) =>
    (call.status = "OK" <=>
       OccursSomewhere(pre.redo_delta_blocks,
                       call.update.replace_redo_blocks_[1].to_remove))

\* A chain [a,a,c] and to_remove [a,c]: the run lies at the second a, the
\* search stops at the first, and the call has returned InvalidArgument.
C17_Witness ==
  /\ CommitUpdateReturned /\ Len(call.update.replace_redo_blocks_) = 1
  /\ Len(pre.redo_delta_blocks) = 3
  /\ pre.redo_delta_blocks[1] = pre.redo_delta_blocks[2]
  /\ pre.redo_delta_blocks[3] # pre.redo_delta_blocks[1]
  /\ call.update.replace_redo_blocks_[1].to_remove =
       SubSeq(pre.redo_delta_blocks, 2, 3)
  /\ call.status = "InvalidArgument"
  /\ redo_delta_blocks_ = pre.redo_delta_blocks

(***************************************************************************)
(* C18: the replacement entries of one CommitUpdate are applied in the     *)
(* order given, each matched against the redo chain as the entries before  *)
(* it left it: the call succeeds exactly when every entry matches the      *)
(* chain left by its predecessors, and the chain is then the result of     *)
(* applying them one after the other.  So a later entry matches a block    *)
(* that an earlier entry's to_add inserted, and does not match a block     *)
(* that an earlier entry removed.                                          *)
(***************************************************************************)
C18_EntriesInOrder ==
  (CommitUpdateReturned /\ Len(call.update.replace_redo_blocks_) = 2
     /\ NoEmptyRemoval(call.update.replace_redo_blocks_)) =>
    LET reps == call.update.replace_redo_blocks_
        old == pre.redo_delta_blocks
        mid == Spliced(old, reps[1].to_remove, reps[1].to_add)
    IN /\ call.status = "OK" <=>
            (MatchesAtFirst(old, reps[1].to_remove)
               /\ MatchesAtFirst(mid, reps[2].to_remove))
       /\ call.status = "OK" =>
            redo_delta_blocks_ =
              Spliced(mid, reps[2].to_remove, reps[2].to_add)
                \o call.update.new_redo_blocks_
       /\ (MatchesAtFirst(old, reps[1].to_remove)
             /\ ~OccursSomewhere(mid, reps[2].to_remove)) =>
            call.status = "InvalidArgument"

\* The second entry removed the block that the first entry inserted, a
\* block the chain did not hold before the call.
C18_Witness ==
  /\ CommitUpdateReturned /\ call.status = "OK"
  /\ Len(call.update.replace_redo_blocks_) = 2
  /\ LET reps == call.update.replace_redo_blocks_
     IN /\ Len(reps[1].to_add) = 1
        /\ reps[1].to_add[1] \notin Range(pre.redo_delta_blocks)
        /\ reps[2].to_remove = reps[1].to_add
        /\ Len(pre.redo_delta_blocks) >= 2
        /\ Len(redo_delta_blocks_) < Len(pre.redo_delta_blocks)

(***************************************************************************)
(* C19: a CommitUpdate that returns an error has applied none of its       *)
(* new_redo_blocks_ and none of its cols_to_replace_; every CommitUpdate   *)
(* that returns, with success or an error, leaves undo_delta_blocks, the   *)
(* watermark, id, schema and the length of column_blocks as they were; a   *)
(* successful one overwrites exactly the column slots named in             *)
(* cols_to_replace_.                                                       *)
(***************************************************************************)
C19_CommitUpdateFrame ==
  CommitUpdateReturned =>
    LET reps == call.update.replace_redo_blocks_
        cols == call.update.cols_to_replace_
    IN /\ undo_delta_blocks_ = pre.undo_delta_blocks
       /\ last_durable_redo_dms_id_ = pre.last_durable_redo_dms_id
       /\ id_ = pre.id
       /\ schema_ = pre.schema
       /\ Len(column_blocks_) = Len(pre.column_blocks)
       /\ call.status = "InvalidArgument" =>
            /\ column_blocks_ = pre.column_blocks
            /\ \E k \in 1..Len(reps) :
                 redo_delta_blocks_ = AfterEntries(pre.redo_delta_blocks, reps, k - 1)
       /\ call.status = "OK" =>
            \A i \in 1..Len(column_blocks_) :
              column_blocks_[i] =
                IF (i - 1) \in DOMAIN cols THEN cols[i - 1] ELSE pre.column_blocks[i]

\* A failed update that carried a block to append: the chain, which ends
\* with another block, is as it was.
C19_Witness ==
  /\ CommitUpdateReturned /\ call.status = "InvalidArgument"
  /\ call.update.new_redo_blocks_ # <<>>
  /\ pre.redo_delta_blocks # <<>>
  /\ pre.redo_delta_blocks[Len(pre.redo_delta_blocks)] # call.update.new_redo_blocks_[1]
  /\ redo_delta_blocks_ = pre.redo_delta_blocks
  /\ column_blocks_ # <<>> /\ undo_delta_blocks_ # <<>>

(***************************************************************************)
(* FairConcSpec: ConcSpec with every thread that is inside a handler       *)
(* eventually taking its next step when it can (the scheduler is fair to   *)
(* running threads; whether a thread calls at all is left open).           *)
(***************************************************************************)
FairConcSpec ==
  ConcSpec /\ \A t \in Threads : WF_vars(pc[t] # "idle" /\ ThreadStep(t))

\* Where a thread is inside a scope of lock_guard<LockType> l(deltas_lock_).
CriticalPcs == MutatingPcs \cup {"tp_dms", "tp_redo", "tp_undo", "tp_unlock"}

\* Thread t has been called and has not returned.
InProgress(t) == pc[t] \notin {"idle", "returned"}

\* At most one thread is in a critical section, it is the holder of the
\* lock, and the lock is free when no thread is in one.
LockDiscipline ==
  /\ \A t1, t2 \in Threads :
       (pc[t1] \in CriticalPcs /\ pc[t2] \in CriticalPcs) => t1 = t2
  /\ \A t \in Threads : pc[t] \in CriticalPcs <=> deltas_lock_ = t
  /\ (\A t \in Threads : ~InProgress(t)) => deltas_lock_ = 0

(***************************************************************************)
(* C20: the lock is released on every exit path: at most one thread is in  *)
(* a critical section of SetColumnDataBlocks, CommitRedoDeltaDataBlock,    *)
(* CommitUndoDeltaDataBlock, CommitUpdate or the delta part of ToProtobuf; *)
(* the lock is free when no operation is in progress; and under fair       *)
(* scheduling every operation called eventually returns (or the process    *)
(* has died on a CHECK), also operations called after a CommitUpdate has   *)
(* returned InvalidArgument.                                               *)
(***************************************************************************)
C20_LockReleased ==
  /\ []LockDiscipline
  /\ \A t \in Threads : InProgress(t) ~> (pc[t] = "returned" \/ aborted)

\* A CommitUpdate has returned InvalidArgument and another thread now
\* holds the lock inside a mutator.
C20_Witness ==
  \E t1, t2 \in Threads :
    /\ CasReturned(t1) /\ frame[t1].status = "InvalidArgument"
    /\ pc[t2] \in MutatingPcs /\ deltas_lock_ = t2

====
